---- MODULE Spec2Model ----
(***************************************************************************)
(* Model of GarnetDiffusion/functions/MAGEMin_functions.py: the result     *)
(* extractors and the two get_phase_comp functions, the single-point       *)
(* evaluator                                                               *)
(* gt_single_point_calc_endmembers and the path loop garnet_over_path.     *)
(*                                                                         *)
(* Numbers.  Python floats are modelled as exact rationals <<num, den>>    *)
(* in lowest terms with den > 0; <<0, 0>> stands for NaN (0/0).  Rounding  *)
(* of IEEE arithmetic is not modelled.                                     *)
(*                                                                         *)
(* Left out: the grid functions and gt_single_point_calc_elements, which    *)
(* keep no state between points, and the element arrays Mgi, Mni, Fei, Cai *)
(* of garnet_over_path, which are written from calculate_molar_fractions   *)
(* (imported from bulk_rock_functions) and read by nothing in the loop.    *)
(* The solver's dependence on P[i] and T[i] is the free choice of its      *)
(* result at every step.                                                   *)
(*                                                                         *)
(* Indices.  Python lists are 0-based, TLA+ sequences 1-based: Python's    *)
(* index j is j+1 here, so `j < n_SS` reads `j <= n_SS` and                *)
(* `PP_vec[j - n_SS]` keeps its form.  list.index raising ValueError is    *)
(* Index(...) = 0.                                                         *)
(***************************************************************************)
EXTENDS Integers, Sequences, FiniteSets, TLC

VARIABLES
    \* ---- garnet_over_path ------------------------------------------------
    pc,                   \* "loop" while steps remain, "done" after return
    nP,                   \* len(P)
    i,                    \* loop index (number of completed steps)
    X, Xoxides,           \* bulk composition / oxide list passed to the solver next
    sys_in,               \* basis flag
    fractionate,          \* caller's flag, compared with `== True`
    gt_mol_frac, gt_wt_frac, gt_vol_frac,
    d_gt_mol_frac, d_gt_wt_frac,
    py_arr, alm_arr, spss_arr, gr_arr, kho_arr,
    gt_mol_frac_initial, gt_wt_frac_initial, gt_vol_frac_initial,
    \* ---- history of the last completed step ------------------------------
    out,                  \* the MAGEMin output of the last solver call
    X_in, Xoxides_in,     \* what the last solver call was given
    X_init, Xoxides_init, \* the caller's arguments
    raw,                  \* [mol, wt]: gt_frac and gt_wt of each completed step
    \* ---- extractor calls -------------------------------------------------
    phase, end_member,    \* the caller's query
    ret,                  \* last extractor call: [fn, data]
    vol_seen              \* phase name -> extract_phase_vol_frac result so far

pathVars == << pc, nP, i, X, Xoxides, sys_in, fractionate,
               gt_mol_frac, gt_wt_frac, gt_vol_frac, d_gt_mol_frac, d_gt_wt_frac,
               py_arr, alm_arr, spss_arr, gr_arr, kho_arr,
               gt_mol_frac_initial, gt_wt_frac_initial, gt_vol_frac_initial,
               X_in, Xoxides_in, X_init, Xoxides_init, raw >>

extractVars == << phase, end_member, ret, vol_seen >>

vars == << pathVars, out, extractVars >>

----------------------------------------------------------------------------
(* Bounds of the model. *)

\* longest P-T path explored
MaxLen == 3

\* largest number of entries in an assemblage handed to the extractors
MaxPh == 3

----------------------------------------------------------------------------
(* Exact arithmetic standing for Python float arithmetic. *)

Abs(n) == IF n < 0 THEN -n ELSE n

RECURSIVE Gcd(_, _)
Gcd(a, b) == IF b = 0 THEN a ELSE Gcd(b, a % b)

NaN == << 0, 0 >>

\* float literal / value n/d
Rat(n, d) ==
    IF d = 0 THEN NaN
    ELSE LET g == Gcd(Abs(n), Abs(d))
             s == IF d < 0 THEN -1 ELSE 1
         IN << (s * n) \div g, (s * d) \div g >>

Zero == Rat(0, 1)
One  == Rat(1, 1)

IsNaN(a) == a[2] = 0

\* the operations reduce before they multiply, to keep the integers small
RAdd(a, b) == IF IsNaN(a) \/ IsNaN(b) THEN NaN
              ELSE LET g == Gcd(a[2], b[2])
                   IN Rat(a[1] * (b[2] \div g) + b[1] * (a[2] \div g),
                          (a[2] \div g) * b[2])

RSub(a, b) == IF IsNaN(a) \/ IsNaN(b) THEN NaN
              ELSE RAdd(a, << -b[1], b[2] >>)

RMul(a, b) == IF IsNaN(a) \/ IsNaN(b) THEN NaN
              ELSE LET g1 == Gcd(Abs(a[1]), b[2])
                       g2 == Gcd(Abs(b[1]), a[2])
                   IN Rat((a[1] \div g1) * (b[1] \div g2),
                          (a[2] \div g2) * (b[2] \div g1))

\* numpy true division: x / 0 does not raise, 0 / 0 is NaN
RDiv(a, b) == IF IsNaN(a) \/ IsNaN(b) \/ b[1] = 0 THEN NaN
              ELSE Rat(a[1] * b[2], a[2] * b[1])

\* a > 0 (False for NaN, as in Python)
RPos(a) == ~IsNaN(a) /\ a[1] > 0

\* a <= b
RLe(a, b) == ~IsNaN(a) /\ ~IsNaN(b) /\ RSub(b, a)[1] >= 0

RECURSIVE RSum(_)
RSum(s) == IF s = << >> THEN Zero ELSE RAdd(Head(s), RSum(Tail(s)))

\* np.zeros(n)
Zeros(n) == [k \in 1..n |-> Zero]

\* list.index(x): position of the first match, 0 when Python raises ValueError
Index(s, x) ==
    IF \E k \in 1..Len(s) : s[k] = x
    THEN CHOOSE k \in 1..Len(s) : s[k] = x /\ \A m \in 1..(k-1) : s[m] # x
    ELSE 0

\* elementwise numpy operations on vectors of equal length
VSub(a, b) == [k \in 1..Len(a) |-> RSub(a[k], b[k])]
VMul(a, b) == [k \in 1..Len(a) |-> RMul(a[k], b[k])]
VScale(a, c) == [k \in 1..Len(a) |-> RMul(a[k], c)]

----------------------------------------------------------------------------
(* The result extractors.  M is a MAGEMin output:                           *)
(*   [ph, ph_frac, ph_frac_wt, n_SS, SS_vec, PP_vec, oxides, bulk, bulk_wt] *)
(* with SS_vec[j] = [emNames, emFrac, emFrac_wt, Comp, Comp_wt, rho] for the *)
(* solution phases, which come first in ph, and PP_vec[k] = [rho] for the   *)
(* pure phases after them.  Each try/except body is followed exception by   *)
(* exception: a failed list.index or an index past the end of SS_vec lands  *)
(* in the bare except, which returns 0.                                     *)

extract_end_member_mol_frac(ph_name, M, em_name) ==
    LET phase_ind == Index(M.ph, ph_name) IN
    IF phase_ind = 0 \/ phase_ind > Len(M.SS_vec) THEN Zero
    ELSE LET em_index == Index(M.SS_vec[phase_ind].emNames, em_name) IN
         IF em_index = 0 THEN Zero
         ELSE M.SS_vec[phase_ind].emFrac[em_index]

extract_end_member_wt_frac(M, ph_name, em_name) ==
    LET phase_ind == Index(M.ph, ph_name) IN
    IF phase_ind = 0 \/ phase_ind > Len(M.SS_vec) THEN Zero
    ELSE LET em_index == Index(M.SS_vec[phase_ind].emNames, em_name) IN
         IF em_index = 0 THEN Zero
         ELSE M.SS_vec[phase_ind].emFrac_wt[em_index]

extract_phase_mol_frac(ph_name, M) ==
    LET phase_ind == Index(M.ph, ph_name) IN
    IF phase_ind = 0 THEN Zero ELSE M.ph_frac[phase_ind]

\* mutant: the except branch leaves NaN for a phase that is not found
extract_phase_wt_frac_NaN(ph_name, M) ==
    LET phase_ind == Index(M.ph, ph_name) IN
    IF phase_ind = 0 THEN NaN ELSE M.ph_frac_wt[phase_ind]

extract_phase_wt_frac(ph_name, M) ==
    LET phase_ind == Index(M.ph, ph_name) IN
    IF phase_ind = 0 THEN Zero ELSE M.ph_frac_wt[phase_ind]

\* line 364: id = [j for j, p in enumerate(ph) if p == ph_name]
PhaseIds(M, ph_name) ==
    SelectSeq([k \in 1..Len(M.ph) |-> k], LAMBDA k : M.ph[k] = ph_name)

\* line 366: the density of entry j, from SS_vec or PP_vec
EntryRho(M, j) ==
    IF j <= M.n_SS THEN M.SS_vec[j].rho ELSE M.PP_vec[j - M.n_SS].rho

\* line 366: rho = sum(...) / len(id)
MeanRho(M, id) ==
    RDiv(RSum([m \in 1..Len(id) |-> EntryRho(M, id[m])]), Rat(Len(id), 1))

\* lines 363-367: V[i] for every entry i of the assemblage, before normalising
UnnormalisedV(M) ==
    [k \in 1..Len(M.ph) |->
        LET id == PhaseIds(M, M.ph[k]) IN
        RDiv(RSum([m \in 1..Len(id) |-> M.ph_frac_wt[id[m]]]), MeanRho(M, id))]

\* line 367 runs outside the try: a Python float division by a zero mean
\* density raises ZeroDivisionError to the caller
extract_phase_vol_frac_raises(M) ==
    \E k \in 1..Len(M.ph) : MeanRho(M, PhaseIds(M, M.ph[k]))[1] = 0

\* lines 359-378
extract_phase_vol_frac(ph_name, M) ==
    LET V0 == UnnormalisedV(M)
        total == RSum(V0)
        V == [k \in 1..Len(V0) |-> RDiv(V0[k], total)]
        phase_ind == Index(M.ph, ph_name)
    IN IF phase_ind = 0 THEN Zero ELSE V[phase_ind]

get_phase_comp_mol(ph_name, M) ==
    LET phase_ind == Index(M.ph, ph_name) IN
    IF phase_ind = 0 \/ phase_ind > Len(M.SS_vec) THEN Zero
    ELSE M.SS_vec[phase_ind].Comp

\* line 411 reads .Comp, as get_phase_comp_mol does
get_phase_comp_wt(ph_name, M) ==
    LET phase_ind == Index(M.ph, ph_name) IN
    IF phase_ind = 0 \/ phase_ind > Len(M.SS_vec) THEN Zero
    ELSE M.SS_vec[phase_ind].Comp

----------------------------------------------------------------------------
(* The solver is external (MAGEMin_C, lines 24 and 102): what it returns is *)
(* an input of the model, drawn from the finite sets below.  Every result   *)
(* is well formed: ph, ph_frac and ph_frac_wt have one entry per phase, the *)
(* first n_SS entries are solution phases with their SS_vec record, the     *)
(* others pure phases with their PP_vec record, densities are positive.     *)

SSNames == {"g", "fsp"}
PPNames == {"q"}
EndMemberNames == <<"py", "alm", "spss", "gr", "kho">>

\* the solver's own (canonical) order of the oxides
SolverOxides == <<"SiO2", "MgO", "FeO">>

\* the per-phase record of a solution phase; the garnet's two composition
\* vectors differ, the feldspar's coincide
SSRecord(name, density) ==
    IF name = "g"
    THEN [emNames   |-> EndMemberNames,
          emFrac    |-> <<Rat(1,2), Rat(1,4), Rat(1,8), Rat(1,16), Rat(1,16)>>,
          emFrac_wt |-> <<Rat(2,5), Rat(3,10), Rat(1,10), Rat(1,10), Rat(1,10)>>,
          Comp      |-> <<Rat(2,5), Rat(2,5), Rat(1,5)>>,
          Comp_wt   |-> <<Rat(1,2), Rat(1,4), Rat(1,4)>>,
          rho       |-> density]
    ELSE [emNames   |-> <<"ab", "an">>,
          emFrac    |-> <<Rat(3,4), Rat(1,4)>>,
          emFrac_wt |-> <<Rat(2,3), Rat(1,3)>>,
          Comp      |-> <<Rat(3,5), Rat(1,5), Rat(1,5)>>,
          Comp_wt   |-> <<Rat(3,5), Rat(1,5), Rat(1,5)>>,
          rho       |-> density]

\* an assemblage of the solution phases ss followed by the pure phases pp;
\* the fractions of its n entries sum to 1, and the densities are either all
\* equal (uniform) or differ from entry to entry
Assemblage(ss, pp, uniform) ==
    LET n == Len(ss) + Len(pp)
        tri == (n * (n + 1)) \div 2
        density(j) == IF uniform THEN Rat(3, 1) ELSE Rat(2 + j, 1)
    IN [ph         |-> ss \o pp,
        ph_frac    |-> [j \in 1..n |-> Rat(n + 1 - j, tri)],
        ph_frac_wt |-> [j \in 1..n |-> Rat(j, tri)],
        n_SS       |-> Len(ss),
        SS_vec     |-> [j \in 1..Len(ss) |-> SSRecord(ss[j], density(j))],
        PP_vec     |-> [j \in 1..Len(pp) |-> [rho |-> density(Len(ss) + j)]],
        oxides     |-> SolverOxides,
        bulk       |-> <<Rat(1,2), Rat(1,4), Rat(1,4)>>,
        bulk_wt    |-> <<Rat(3,5), Rat(1,5), Rat(1,5)>>]

SeqsUpTo(S, n) == UNION { [1..k -> S] : k \in 0..n }

Assemblages ==
    { Assemblage(ss, pp, u) :
        ss \in SeqsUpTo(SSNames, MaxPh), pp \in SeqsUpTo(PPNames, MaxPh),
        u \in BOOLEAN }

ExtractorInputs == { M \in Assemblages : Len(M.ph) <= MaxPh }

----------------------------------------------------------------------------
(* gt_single_point_calc_endmembers and garnet_over_path.                    *)

\* the amounts of garnet the solver may report at a path point
GarnetAmounts ==
    { [mol |-> Zero,       wt |-> Zero],
      [mol |-> Rat(1, 20), wt |-> Rat(1, 10)],
      [mol |-> Rat(3, 25), wt |-> Rat(1, 5)] }

\* the bulk vector Xc, given in the oxide order Xox, in the solver's order
InSolverOrder(Xc, Xox) ==
    [k \in 1..Len(SolverOxides) |-> Xc[Index(Xox, SolverOxides[k])]]

\* the bulk composition expressed in the basis the caller did not use
OtherBasisBulk == <<Rat(1,4), Rat(1,4), Rat(1,2)>>

\* line 102: what MAGEMin_C.single_point_minimization may return for the bulk
\* Xc with oxides Xox in basis flag: garnet absent, or present in one of
\* GarnetAmounts beside quartz.  The result reports the oxides in the
\* solver's order and the bulk it was given in that order, under the field
\* of the basis used ("wt": bulk_wt, otherwise bulk).
SolverResults(Xc, Xox, basis) ==
    LET given == InSolverOrder(Xc, Xox)
        base(ss, a) ==
            [ph         |-> ss \o <<"q">>,
             ph_frac    |-> IF ss = << >> THEN <<One>> ELSE <<a.mol, RSub(One, a.mol)>>,
             ph_frac_wt |-> IF ss = << >> THEN <<One>> ELSE <<a.wt, RSub(One, a.wt)>>,
             n_SS       |-> Len(ss),
             SS_vec     |-> [j \in 1..Len(ss) |-> SSRecord(ss[j], Rat(4, 1))],
             PP_vec     |-> << [rho |-> Rat(3, 1)] >>,
             oxides     |-> SolverOxides,
             bulk       |-> IF basis = "wt" THEN OtherBasisBulk ELSE given,
             bulk_wt    |-> IF basis = "wt" THEN given ELSE OtherBasisBulk]
    IN { base(<< >>, [mol |-> Zero, wt |-> Zero]) }
       \cup { base(<<"g">>, a) : a \in GarnetAmounts }

\* lines 108-122 (the solver call of line 102 is the caller's choice of M)
gt_single_point_calc_endmembers(M) ==
    IF Index(M.ph, "g") # 0
    THEN [gt_frac |-> extract_phase_mol_frac("g", M),
          gt_wt   |-> extract_phase_wt_frac("g", M),
          gt_vol  |-> extract_phase_vol_frac("g", M),
          py      |-> extract_end_member_mol_frac("g", M, "py"),
          alm     |-> extract_end_member_mol_frac("g", M, "alm"),
          spss    |-> extract_end_member_mol_frac("g", M, "spss"),
          gr      |-> extract_end_member_mol_frac("g", M, "gr"),
          kho     |-> extract_end_member_mol_frac("g", M, "kho")]
    ELSE [gt_frac |-> Zero, gt_wt |-> Zero, gt_vol |-> Zero,
          py |-> Zero, alm |-> Zero, spss |-> Zero, gr |-> Zero, kho |-> Zero]

\* mutant: the flag is not consulted
FractionationEnabled_Always(f) == f \in {0, 1, 2}

\* line 229: `fractionate == True`; among the numbers only 1 equals True
FractionationEnabled(f) == f = 1

\* mutant: the reference value is rebound at every step
Baseline_EveryStep(step, old, value) == << value >>

\* lines 217-220: the reference value is bound at i == 0 and kept afterwards
\* (a one-element sequence once bound, empty before)
Baseline(step, old, value) == IF step = 0 THEN << value >> ELSE old

\* lines 238-243: the per-step change of the zeroed array arr, whose entry for
\* step `step` is arr[step + 1]
StepDelta(step, arr) ==
    IF step = 0 THEN arr[1] ELSE RSub(arr[step + 1], arr[step])

\* mutant: the update is guarded by the garnet being in the assemblage
FractionatedBulk_IfPresent(M, basis, gt_frac, d_wt, d_mol, Xold) ==
    IF Index(M.ph, "g") # 0
    THEN LET garnet_ind == Index(M.ph, "g") IN
         IF basis = "wt"
         THEN VSub(M.bulk_wt, VScale(VMul(M.bulk_wt, M.SS_vec[garnet_ind].Comp_wt), d_wt))
         ELSE IF basis = "mol"
         THEN VSub(M.bulk, VScale(VMul(M.bulk, M.SS_vec[garnet_ind].Comp), d_mol))
         ELSE Xold
    ELSE Xold

\* mutant: the weight-basis update takes the mole delta and the mole-basis
\* update the weight delta
FractionatedBulk_OtherDelta(M, basis, gt_frac, d_wt, d_mol, Xold) ==
    IF RPos(gt_frac)
    THEN LET garnet_ind == Index(M.ph, "g") IN
         IF basis = "wt"
         THEN VSub(M.bulk_wt, VScale(VMul(M.bulk_wt, M.SS_vec[garnet_ind].Comp_wt), d_mol))
         ELSE IF basis = "mol"
         THEN VSub(M.bulk, VScale(VMul(M.bulk, M.SS_vec[garnet_ind].Comp), d_wt))
         ELSE Xold
    ELSE Xold

\* lines 246-253: the bulk composition after the step
FractionatedBulk(M, basis, gt_frac, d_wt, d_mol, Xold) ==
    IF RPos(gt_frac)
    THEN LET garnet_ind == Index(M.ph, "g") IN
         IF basis = "wt"
         THEN VSub(M.bulk_wt, VScale(VMul(M.bulk_wt, M.SS_vec[garnet_ind].Comp_wt), d_wt))
         ELSE IF basis = "mol"
         THEN VSub(M.bulk, VScale(VMul(M.bulk, M.SS_vec[garnet_ind].Comp), d_mol))
         ELSE Xold
    ELSE Xold

\* lines 246-249: the oxide list after the step
FractionatedOxides(M, gt_frac, Xoxold) ==
    IF RPos(gt_frac) THEN M.oxides ELSE Xoxold

Set(arr, k, v) == [arr EXCEPT ![k] = v]

\* lines 193-253: one iteration of the loop, solver call included
Step ==
    /\ pc = "loop"
    /\ i < nP
    /\ \E M \in SolverResults(X, Xoxides, sys_in) :
         LET r       == gt_single_point_calc_endmembers(M)
             mol0    == Baseline(i, gt_mol_frac_initial, r.gt_frac)
             wt0     == Baseline(i, gt_wt_frac_initial, r.gt_wt)
             vol0    == Baseline(i, gt_vol_frac_initial, r.gt_vol)
             mol     == Set(gt_mol_frac, i + 1, RSub(r.gt_frac, mol0[1]))
             wt      == Set(gt_wt_frac, i + 1, RSub(r.gt_wt, wt0[1]))
             on      == FractionationEnabled(fractionate)
             d_mol   == IF on THEN Set(d_gt_mol_frac, i + 1, StepDelta(i, mol))
                        ELSE d_gt_mol_frac
             d_wt    == IF on THEN Set(d_gt_wt_frac, i + 1, StepDelta(i, wt))
                        ELSE d_gt_wt_frac
         IN /\ out' = M
            /\ X_in' = X
            /\ Xoxides_in' = Xoxides
            /\ raw' = Append(raw, [mol |-> r.gt_frac, wt |-> r.gt_wt])
            /\ py_arr' = Set(py_arr, i + 1, r.py)
            /\ alm_arr' = Set(alm_arr, i + 1, r.alm)
            /\ spss_arr' = Set(spss_arr, i + 1, r.spss)
            /\ gr_arr' = Set(gr_arr, i + 1, r.gr)
            /\ kho_arr' = Set(kho_arr, i + 1, r.kho)
            /\ gt_mol_frac_initial' = mol0
            /\ gt_wt_frac_initial' = wt0
            /\ gt_vol_frac_initial' = vol0
            /\ gt_mol_frac' = mol
            /\ gt_wt_frac' = wt
            /\ gt_vol_frac' = Set(gt_vol_frac, i + 1, RSub(r.gt_vol, vol0[1]))
            /\ d_gt_mol_frac' = d_mol
            /\ d_gt_wt_frac' = d_wt
            /\ X' = IF on
                    THEN FractionatedBulk(M, sys_in, r.gt_frac,
                                          d_wt[i + 1], d_mol[i + 1], X)
                    ELSE X
            /\ Xoxides' = IF on THEN FractionatedOxides(M, r.gt_frac, Xoxides)
                          ELSE Xoxides
    /\ i' = i + 1
    /\ UNCHANGED << pc, nP, sys_in, fractionate, X_init, Xoxides_init, extractVars >>

\* line 267: the loop is over and the arrays are returned
Return ==
    /\ pc = "loop"
    /\ i = nP
    /\ pc' = "done"
    /\ UNCHANGED << nP, i, X, Xoxides, sys_in, fractionate,
                    gt_mol_frac, gt_wt_frac, gt_vol_frac, d_gt_mol_frac, d_gt_wt_frac,
                    py_arr, alm_arr, spss_arr, gr_arr, kho_arr,
                    gt_mol_frac_initial, gt_wt_frac_initial, gt_vol_frac_initial,
                    X_in, Xoxides_in, X_init, Xoxides_init, raw, out, extractVars >>

\* the oxide lists a caller may pass: the solver's order or another one
CallerOxides == { SolverOxides, <<"FeO", "MgO", "SiO2">> }

CallerBulks == { <<Rat(1,2), Rat(1,4), Rat(1,4)>>, <<Rat(1,4), Rat(1,2), Rat(1,4)>> }

\* no query has been made
NoQuery ==
    /\ phase = ""
    /\ end_member = ""
    /\ ret = [fn |-> "", raised |-> FALSE, data |-> Zero]
    /\ vol_seen = << >>

\* lines 159, 175-191: the call garnet_over_path(P, T, data, X, Xoxides, sys_in,
\* fractionate) with len(P) = nP
Init ==
    /\ pc = "loop"
    /\ nP \in 0..MaxLen
    /\ i = 0
    /\ X \in CallerBulks
    /\ Xoxides \in CallerOxides
    /\ sys_in \in {"wt", "mol", "vol"}
    /\ fractionate \in {0, 1, 2}
    /\ gt_mol_frac = Zeros(nP) /\ gt_wt_frac = Zeros(nP) /\ gt_vol_frac = Zeros(nP)
    /\ d_gt_mol_frac = Zeros(nP) /\ d_gt_wt_frac = Zeros(nP)
    /\ py_arr = Zeros(nP) /\ alm_arr = Zeros(nP) /\ spss_arr = Zeros(nP)
    /\ gr_arr = Zeros(nP) /\ kho_arr = Zeros(nP)
    /\ gt_mol_frac_initial = << >>
    /\ gt_wt_frac_initial = << >>
    /\ gt_vol_frac_initial = << >>
    /\ out = Assemblage(<< >>, << >>, TRUE)
    /\ X_in = X /\ Xoxides_in = Xoxides
    /\ X_init = X /\ Xoxides_init = Xoxides
    /\ raw = << >>
    /\ NoQuery

Next == Step \/ Return

Spec == Init /\ [][Next]_vars

----------------------------------------------------------------------------
(* The extractors called on a solver result, one call at a time.            *)

QueryPhases == SSNames \cup PPNames
QueryEndMembers == {"py", "an", "zz"}

Returned(fn, raised, data) ==
    [fn |-> fn, raised |-> raised, data |-> IF raised THEN Zero ELSE data]

Call_extract_phase_mol_frac ==
    \E p \in QueryPhases :
        /\ phase' = p /\ end_member' = ""
        /\ ret' = Returned("extract_phase_mol_frac", FALSE, extract_phase_mol_frac(p, out))
        /\ UNCHANGED << pathVars, out, vol_seen >>

Call_extract_phase_wt_frac ==
    \E p \in QueryPhases :
        /\ phase' = p /\ end_member' = ""
        /\ ret' = Returned("extract_phase_wt_frac", FALSE, extract_phase_wt_frac(p, out))
        /\ UNCHANGED << pathVars, out, vol_seen >>

Call_extract_phase_vol_frac ==
    \E p \in QueryPhases :
        LET raised == extract_phase_vol_frac_raises(out)
            data   == extract_phase_vol_frac(p, out)
        IN /\ phase' = p /\ end_member' = ""
           /\ ret' = Returned("extract_phase_vol_frac", raised, data)
           /\ vol_seen' = IF raised THEN vol_seen
                          ELSE [q \in DOMAIN vol_seen \cup {p} |->
                                   IF q = p THEN data ELSE vol_seen[q]]
           /\ UNCHANGED << pathVars, out >>

Call_extract_end_member_mol_frac ==
    \E p \in QueryPhases, e \in QueryEndMembers :
        /\ phase' = p /\ end_member' = e
        /\ ret' = Returned("extract_end_member_mol_frac", FALSE,
                           extract_end_member_mol_frac(p, out, e))
        /\ UNCHANGED << pathVars, out, vol_seen >>

Call_extract_end_member_wt_frac ==
    \E p \in QueryPhases, e \in QueryEndMembers :
        /\ phase' = p /\ end_member' = e
        /\ ret' = Returned("extract_end_member_wt_frac", FALSE,
                           extract_end_member_wt_frac(out, p, e))
        /\ UNCHANGED << pathVars, out, vol_seen >>

Call_get_phase_comp_mol ==
    \E p \in QueryPhases :
        /\ phase' = p /\ end_member' = ""
        /\ ret' = Returned("get_phase_comp_mol", FALSE, get_phase_comp_mol(p, out))
        /\ UNCHANGED << pathVars, out, vol_seen >>

Call_get_phase_comp_wt ==
    \E p \in QueryPhases :
        /\ phase' = p /\ end_member' = ""
        /\ ret' = Returned("get_phase_comp_wt", FALSE, get_phase_comp_wt(p, out))
        /\ UNCHANGED << pathVars, out, vol_seen >>

\* a solver result in hand, no path being walked
InitExtract ==
    /\ out \in ExtractorInputs
    /\ NoQuery
    /\ pc = "done" /\ nP = 0 /\ i = 0
    /\ X = out.bulk /\ Xoxides = out.oxides
    /\ X_in = X /\ Xoxides_in = Xoxides
    /\ X_init = X /\ Xoxides_init = Xoxides
    /\ sys_in = "mol" /\ fractionate = 0
    /\ gt_mol_frac = << >> /\ gt_wt_frac = << >> /\ gt_vol_frac = << >>
    /\ d_gt_mol_frac = << >> /\ d_gt_wt_frac = << >>
    /\ py_arr = << >> /\ alm_arr = << >> /\ spss_arr = << >>
    /\ gr_arr = << >> /\ kho_arr = << >>
    /\ gt_mol_frac_initial = << >>
    /\ gt_wt_frac_initial = << >>
    /\ gt_vol_frac_initial = << >>
    /\ raw = << >>

NextExtract ==
    \/ Call_extract_phase_mol_frac
    \/ Call_extract_phase_wt_frac
    \/ Call_extract_phase_vol_frac
    \/ Call_extract_end_member_mol_frac
    \/ Call_extract_end_member_wt_frac
    \/ Call_get_phase_comp_mol
    \/ Call_get_phase_comp_wt

SpecExtract == InitExtract /\ [][NextExtract]_vars

----------------------------------------------------------------------------
(* Properties of garnet_over_path (specification Spec).                     *)
(* After i completed steps, step k (0-based) has its entries at index k+1;  *)
(* X and Xoxides are what step i will pass to the solver, X_in and          *)
(* Xoxides_in what step i-1 passed, out what the solver returned to it.     *)

PathOxideIndices == 1..Len(SolverOxides)

\* the garnet's record in the last solver result
LastGarnet == out.SS_vec[Index(out.ph, "g")]

\* C1: when the call has returned, every step's delta is the step difference
\* of the zeroed growth curve: delta[0] = growth[0], delta[k] = growth[k] -
\* growth[k-1], for mole and for weight fraction, fractionation enabled or not.
C1_DeltaIsStepDifference ==
    pc = "done" =>
        \A k \in 1..nP :
            /\ d_gt_mol_frac[k] = IF k = 1 THEN gt_mol_frac[1]
                                  ELSE RSub(gt_mol_frac[k], gt_mol_frac[k - 1])
            /\ d_gt_wt_frac[k] = IF k = 1 THEN gt_wt_frac[1]
                                 ELSE RSub(gt_wt_frac[k], gt_wt_frac[k - 1])

\* C2: with fractionation enabled and a basis flag that is neither "wt" nor
\* "mol", a step whose raw mole fraction is positive ends in an error: the
\* call never stands after such a step as if the step had succeeded.
C2_InvalidBasisRaises ==
    ( /\ i >= 1
      /\ fractionate = 1
      /\ sys_in \notin {"wt", "mol"}
      /\ RPos(raw[i].mol) ) => pc = "raised"

\* C3: with fractionation enabled, after a step at which the garnet is absent
\* or its raw mole fraction is not positive, the bulk composition and oxide
\* list for the next step are those the step itself passed to the solver.
C3_NoGarnetKeepsBulk ==
    ( /\ i >= 1
      /\ fractionate = 1
      /\ ~RPos(raw[i].mol) ) => (X = X_in /\ Xoxides = Xoxides_in)

\* C3 witness: the garnet is in the assemblage with amount zero after having
\* been there in a positive amount, so the step's delta is not zero, and a
\* further step follows.
C3_Witness ==
    /\ i >= 2 /\ i < nP
    /\ fractionate = 1 /\ sys_in = "mol"
    /\ Index(out.ph, "g") # 0
    /\ ~RPos(raw[i].mol)
    /\ d_gt_mol_frac[i] # Zero
    /\ X = X_in

\* C4: with fractionation disabled, every solver call gets the caller's bulk
\* composition and oxide list, whatever the solver returned before.
C4_DisabledKeepsCallerBulk ==
    fractionate = 0 =>
        /\ X = X_init /\ Xoxides = Xoxides_init
        /\ X_in = X_init /\ Xoxides_in = Xoxides_init

\* C4 witness: two steps done with fractionation disabled, garnet present in
\* growing amounts and the caller's oxides not in the solver's order.
C4_Witness ==
    /\ fractionate = 0
    /\ i >= 2
    /\ RPos(raw[1].mol) /\ RPos(raw[2].mol) /\ raw[2] # raw[1]
    /\ Xoxides_init # SolverOxides
    /\ X = X_init

\* C5: the baseline is unbound before step 0, is the raw fraction of step 0
\* ever after, the growth of step 0 is 0 and the growth of every later step k
\* is raw[k] - raw[0], for mole and for weight fraction.
C5_BaselineFixedAtStepZero ==
    /\ i = 0 => (gt_mol_frac_initial = << >> /\ gt_wt_frac_initial = << >>)
    /\ i >= 1 =>
        /\ gt_mol_frac_initial = << raw[1].mol >>
        /\ gt_wt_frac_initial = << raw[1].wt >>
        /\ gt_mol_frac[1] = Zero
        /\ gt_wt_frac[1] = Zero
        /\ \A k \in 2..i :
              /\ gt_mol_frac[k] = RSub(raw[k].mol, raw[1].mol)
              /\ gt_wt_frac[k] = RSub(raw[k].wt, raw[1].wt)

\* C5 witness: the path starts with garnet already present and a later step
\* reports another amount.
C5_Witness ==
    /\ i >= 2
    /\ RPos(raw[1].mol)
    /\ raw[2].mol # raw[1].mol
    /\ gt_mol_frac[1] = Zero
    /\ gt_mol_frac[2] # Zero

\* the bulk B depleted by the composition C times delta, oxide by oxide
Depleted(B, C, delta) ==
    [k \in PathOxideIndices |-> RSub(B[k], RMul(RMul(B[k], C[k]), delta))]

\* C9 as stated: after a fractionating step the next bulk composition is
\* B - B*C*delta with B the bulk composition the step passed to the solver.
C9_DepletesPassedBulk ==
    ( /\ i >= 1
      /\ fractionate = 1
      /\ sys_in \in {"wt", "mol"}
      /\ RPos(raw[i].mol) ) =>
        X = IF sys_in = "wt"
            THEN Depleted(X_in, LastGarnet.Comp_wt, d_gt_wt_frac[i])
            ELSE Depleted(X_in, LastGarnet.Comp, d_gt_mol_frac[i])

\* C9 amended: after a fractionating step the next bulk composition is
\* B - B*C*delta with B the same-basis bulk composition reported in the
\* step's solver result (bulk_wt for "wt", bulk for "mol"), and the next
\* oxide list is the one the result reports.
C9_DepletesReportedBulk ==
    ( /\ i >= 1
      /\ fractionate = 1
      /\ sys_in \in {"wt", "mol"}
      /\ RPos(raw[i].mol) ) =>
        /\ X = IF sys_in = "wt"
               THEN Depleted(out.bulk_wt, LastGarnet.Comp_wt, d_gt_wt_frac[i])
               ELSE Depleted(out.bulk, LastGarnet.Comp, d_gt_mol_frac[i])
        /\ Xoxides = out.oxides

\* C9 witness: a weight-basis step with garnet present and a non-zero delta
\* has changed the bulk composition, after a caller gave the oxides in an
\* order that is not the solver's.
C9_Witness ==
    /\ i >= 2
    /\ fractionate = 1 /\ sys_in = "wt"
    /\ RPos(raw[i].mol)
    /\ d_gt_wt_frac[i] # Zero
    /\ d_gt_wt_frac[i] # d_gt_mol_frac[i]
    /\ Xoxides_init # SolverOxides
    /\ X # out.bulk_wt

\* C10 (its particular case): with fractionation enabled, after a step at
\* which the garnet is present but has shrunk since the previous step, no
\* component of the next bulk composition is larger than the component the
\* step passed to the solver (compared where the oxide list is the same).
C10_ShrinkNeverEnriches ==
    ( /\ i >= 1
      /\ fractionate = 1
      /\ RPos(raw[i].mol)
      /\ d_gt_mol_frac[i][1] < 0
      /\ d_gt_wt_frac[i][1] < 0
      /\ Xoxides = Xoxides_in ) =>
        \A k \in PathOxideIndices : RLe(X[k], X_in[k])

----------------------------------------------------------------------------
(* Properties of the extractors (specification SpecExtract).                *)

PhaseAbsent == Index(out.ph, phase) = 0

\* the queried phase has no end-member of the queried name: the phase is
\* absent, or is a pure phase, or its emNames does not hold the name
EndMemberAbsent ==
    \/ PhaseAbsent
    \/ Index(out.ph, phase) > out.n_SS
    \/ Index(out.SS_vec[Index(out.ph, phase)].emNames, end_member) = 0

\* C6: a phase-fraction query for a phase that is not in the assemblage, and
\* an end-member query for a phase or end-member that is not there, return
\* 0.0 and do not raise.
C6_AbsentGivesZero ==
    /\ ( /\ ret.fn \in {"extract_phase_mol_frac", "extract_phase_wt_frac",
                        "extract_phase_vol_frac"}
         /\ PhaseAbsent ) => (~ret.raised /\ ret.data = Zero)
    /\ ( /\ ret.fn \in {"extract_end_member_mol_frac", "extract_end_member_wt_frac"}
         /\ EndMemberAbsent ) => (~ret.raised /\ ret.data = Zero)

\* C6 witness: the weight fraction of a phase was asked of an assemblage of
\* several phases that does not hold it.
C6_Witness ==
    /\ ret.fn = "extract_phase_wt_frac"
    /\ PhaseAbsent
    /\ Len(out.ph) >= 2
    /\ ret.data = Zero

RECURSIVE SumOver(_, _)
SumOver(f, S) ==
    IF S = {} THEN Zero
    ELSE LET x == CHOOSE x \in S : TRUE IN RAdd(f[x], SumOver(f, S \ {x}))

PhasesPresent == { out.ph[k] : k \in 1..Len(out.ph) }

\* C7: once the volume fraction of every distinct phase name of a non-empty
\* assemblage has been asked, the values returned sum to 1.
C7_VolumeFractionsSumToOne ==
    ( /\ out.ph # << >>
      /\ DOMAIN vol_seen = PhasesPresent ) => SumOver(vol_seen, PhasesPresent) = One

\* C8: get_phase_comp_wt of a solution phase in the assemblage returns that
\* phase's weight-basis composition vector, Comp_wt.
C8_CompWtIsWeightBasis ==
    ( /\ ret.fn = "get_phase_comp_wt"
      /\ ~PhaseAbsent
      /\ Index(out.ph, phase) <= out.n_SS ) =>
        ret.data = out.SS_vec[Index(out.ph, phase)].Comp_wt

====
